---- MODULE Spec2Model ----
(***************************************************************************)
(* A model of the assembly engine of AuToGraFS (src/autografs.py):         *)
(* Autografs.make, get_sbu_dict, align and tag.                            *)
(*                                                                         *)
(* Coordinates are exact numbers of the field Q(sqrt 3), extended with the *)
(* IEEE values NaN, +Inf and -Inf that numpy produces on a division by     *)
(* zero.  A number is a record [p, q, d] that stands for (p + q*sqrt3)/d   *)
(* with d > 0 and gcd(p, q, d) = 1; d = 0 marks the values that are not    *)
(* finite.  sqrt 3 is needed for the fixed direction ones(3)/norm(ones(3)) *)
(* of align.                                                               *)
(***************************************************************************)
EXTENDS Integers, Sequences, FiniteSets, TLC

VARIABLES
    pc,            \* where the call of make stands
    mode,          \* "names": make(topology_name, sbu_names); "dict": sbu_dict given
    topology,      \* the Topology of the call: its slots, in index order
    sbu_names,     \* the argument sbu_names
    sbu_dict,      \* slot index -> name of the SBU object
    order,         \* the order in which sbu_dict.items() yields the indices
    pos,           \* the number of items the loop of make has finished
    alpha,         \* the running total of make
    aligned,       \* the Framework: slot index -> what append stored
    refine_calls,  \* how many times Framework.refine was called
    alpha0,        \* the argument of the last call of refine
    error,         \* the exception that ended make, "" if none
    trace,         \* history: the calls of align, append and refine, in order
    call           \* a direct call of align or tag: its arguments and result

vars == <<pc, mode, topology, sbu_names, sbu_dict, order, pos, alpha,
          aligned, refine_calls, alpha0, error, trace, call>>

make_vars == <<pc, mode, topology, sbu_names, sbu_dict, order, pos, alpha,
               aligned, refine_calls, alpha0, error, trace>>

(***************************************************************************)
(* Bounds of the model.                                                    *)
(***************************************************************************)
\* fragments of the pool are the base shapes stretched by 1..MaxSize
MaxSize == 2
\* a topology has 1..MaxSlots slots
MaxSlots == 2
\* sbu_names holds 1..MaxNames entries
MaxNames == 2

(***************************************************************************)
(* Numbers.                                                                *)
(***************************************************************************)
Abs(n) == IF n < 0 THEN -n ELSE n

RECURSIVE Gcd(_, _)
Gcd(a, b) == IF b = 0 THEN a ELSE Gcd(b, a % b)

Mk(p, q, d) ==
    LET g == Gcd(Gcd(Abs(p), Abs(q)), d)
    IN  [p |-> p \div g, q |-> q \div g, d |-> d \div g]

MkS(p, q, d) == IF d < 0 THEN Mk(-p, -q, -d) ELSE Mk(p, q, d)

I(n) == [p |-> n, q |-> 0, d |-> 1]
Zero == I(0)
NaN  == [p |-> 0, q |-> 0, d |-> 0]
PInf == [p |-> 1, q |-> 0, d |-> 0]
NInf == [p |-> -1, q |-> 0, d |-> 0]

IsFinite(x) == x.d > 0
IsNaN(x)    == x.d = 0 /\ x.p = 0
Inf(s)      == IF s > 0 THEN PInf ELSE NInf

\* the sign of p + q*sqrt3 (of NaN: 0)
Sgn(x) ==
    CASE x.p >= 0 /\ x.q >= 0 -> IF x.p = 0 /\ x.q = 0 THEN 0 ELSE 1
      [] x.p <= 0 /\ x.q <= 0 -> -1
      [] x.p > 0 /\ x.q < 0   -> IF x.p * x.p > 3 * x.q * x.q THEN 1 ELSE -1
      [] OTHER                -> IF 3 * x.q * x.q > x.p * x.p THEN 1 ELSE -1

FNeg(x) == [p |-> -x.p, q |-> -x.q, d |-> x.d]

FAdd(x, y) ==
    IF IsNaN(x) \/ IsNaN(y) THEN NaN
    ELSE IF x.d = 0 THEN (IF y.d = 0 /\ y.p # x.p THEN NaN ELSE x)
    ELSE IF y.d = 0 THEN y
    ELSE Mk(x.p * y.d + y.p * x.d, x.q * y.d + y.q * x.d, x.d * y.d)

FSub(x, y) == FAdd(x, FNeg(y))

FMul(x, y) ==
    IF IsNaN(x) \/ IsNaN(y) THEN NaN
    ELSE IF x.d = 0 \/ y.d = 0
         THEN (IF Sgn(x) = 0 \/ Sgn(y) = 0 THEN NaN ELSE Inf(Sgn(x) * Sgn(y)))
    ELSE Mk(x.p * y.p + 3 * x.q * y.q, x.p * y.q + x.q * y.p, x.d * y.d)

\* numpy's true division: x/0 is +-Inf or NaN (a warning, not an error)
FDiv(x, y) ==
    IF IsNaN(x) \/ IsNaN(y) THEN NaN
    ELSE IF y.d = 0 THEN (IF x.d = 0 THEN NaN ELSE Zero)
    ELSE IF x.d = 0 THEN Inf(Sgn(x) * (IF Sgn(y) < 0 THEN -1 ELSE 1))
    ELSE IF Sgn(y) = 0 THEN (IF Sgn(x) = 0 THEN NaN ELSE Inf(Sgn(x)))
    ELSE MkS(y.d * (x.p * y.p - 3 * x.q * y.q),
             y.d * (x.q * y.p - x.p * y.q),
             x.d * (y.p * y.p - 3 * y.q * y.q))

FLt(x, y) ==
    IF IsNaN(x) \/ IsNaN(y) \/ x = y THEN FALSE ELSE Sgn(FSub(y, x)) > 0

RECURSIVE ISqrtFrom(_, _)
ISqrtFrom(n, r) == IF (r + 1) * (r + 1) > n THEN r ELSE ISqrtFrom(n, r + 1)
ISqrt(n) == ISqrtFrom(n, 0)

\* the square root of a rational x >= 0 whose root lies in Q(sqrt 3); the
\* pools below hold only points whose norms do
FSqrt(x) ==
    LET n == x.p * x.d
        r == ISqrt(n)
        s == ISqrt(3 * n)
    IN  IF r * r = n THEN Mk(r, 0, x.d)
        ELSE IF s * s = 3 * n THEN Mk(0, s, 3 * x.d)
        ELSE CHOOSE z \in {} : TRUE

RECURSIVE FSum(_)
FSum(s) == IF s = <<>> THEN Zero ELSE FAdd(FSum(SubSeq(s, 1, Len(s) - 1)), s[Len(s)])

\* numpy.mean of a 1-d array; of an empty one it is NaN (0.0/0)
FMean(s) == FDiv(FSum(s), I(Len(s)))

(***************************************************************************)
(* Vectors of three numbers, and lists of them (an (n,3) array).           *)
(***************************************************************************)
\* a list given by a function on 1..n, as the tuple of its values
List(f) == f \o <<>>

V(x, y, z) == <<I(x), I(y), I(z)>>
VAdd(u, v) == <<FAdd(u[1], v[1]), FAdd(u[2], v[2]), FAdd(u[3], v[3])>>
VSub(u, v) == <<FSub(u[1], v[1]), FSub(u[2], v[2]), FSub(u[3], v[3])>>
VNorm2(u)  == FAdd(FAdd(FMul(u[1], u[1]), FMul(u[2], u[2])), FMul(u[3], u[3]))
\* numpy.linalg.norm of one row
VNorm(u)   == FSqrt(VNorm2(u))
VFinite(u) == \A k \in 1..3 : IsFinite(u[k])

\* positions.mean(axis=0)
Column(ps, k) == List([i \in 1..Len(ps) |-> ps[i][k]])
MeanPos(ps) == <<FMean(Column(ps, 1)), FMean(Column(ps, 2)), FMean(Column(ps, 3))>>

Positions(atoms) == List([i \in 1..Len(atoms) |-> atoms[i].position])
SetPositions(atoms, ps) ==
    List([i \in 1..Len(atoms) |-> [atoms[i] EXCEPT !.position = ps[i]]])

\* rows . M for an (n,3) array and a 3x3 matrix (numpy's dot)
RowDot(u, M, b) ==
    FAdd(FAdd(FMul(u[1], M[1][b]), FMul(u[2], M[2][b])), FMul(u[3], M[3][b]))
MatDot(ps, M) ==
    List([i \in 1..Len(ps) |-> <<RowDot(ps[i], M, 1), RowDot(ps[i], M, 2), RowDot(ps[i], M, 3)>>])

Eye3 == <<V(1, 0, 0), V(0, 1, 0), V(0, 0, 1)>>

(***************************************************************************)
(* Autografs.tag                                                           *)
(***************************************************************************)
\* numpy.argmin: the first index of the minimum, a NaN counting as the minimum
Better(x, y) == (IsNaN(x) /\ ~IsNaN(y)) \/ (~IsNaN(y) /\ FLt(x, y))

RECURSIVE ArgMinFrom(_, _, _)
ArgMinFrom(d, j, best) ==
    IF j > Len(d) THEN best
    ELSE ArgMinFrom(d, j + 1, IF Better(d[j], d[best]) THEN j ELSE best)

ArgMinLast(d) ==
    CHOOSE j \in 1..Len(d) :
        /\ \A k \in 1..Len(d) : ~Better(d[k], d[j])
        /\ \A k \in (j + 1)..Len(d) : Better(d[j], d[k])

ArgMin(d) == ArgMinFrom(d, 2, 1)

\* d = norm(pf - ps, axis=1), kept squared: the square root is monotone, so
\* the argmin and its ties are those of the squared distances
Distances(pf, ps) == List([j \in 1..Len(pf) |-> VNorm2(VSub(pf[j], ps))])

Tag(sbu, fragment) ==
    List([i \in 1..Len(sbu) |->
        IF sbu[i].symbol # "X" THEN sbu[i]
        ELSE LET d  == Distances(Positions(fragment), sbu[i].position)
                 fi == ArgMin(d)
             IN  [sbu[i] EXCEPT !.tag = fragment[fi].tag]])

(***************************************************************************)
(* scipy.linalg.orthogonal_procrustes(A, B): R = U.Vt for the SVD          *)
(* A^T.B = U.W.Vt.  An orthogonal R is such a product for some SVD of      *)
(* M = A^T.B exactly when R^T.M is symmetric positive semidefinite (it is  *)
(* then V.W.Vt); when M is singular several R are, and which one LAPACK    *)
(* returns is not fixed by the code.  The model searches the 48 signed     *)
(* permutation matrices, which is where the optimum of the pools lies.     *)
(***************************************************************************)
Perms3 == {p \in [1..3 -> 1..3] : \A a, b \in 1..3 : a # b => p[a] # p[b]}

SignedPerms ==
    {<< <<IF p[1] = 1 THEN s[1] ELSE 0, IF p[1] = 2 THEN s[1] ELSE 0,
           IF p[1] = 3 THEN s[1] ELSE 0>>,
         <<IF p[2] = 1 THEN s[2] ELSE 0, IF p[2] = 2 THEN s[2] ELSE 0,
           IF p[2] = 3 THEN s[2] ELSE 0>>,
         <<IF p[3] = 1 THEN s[3] ELSE 0, IF p[3] = 2 THEN s[3] ELSE 0,
           IF p[3] = 3 THEN s[3] ELSE 0>> >> :
        p \in Perms3, s \in [1..3 -> {-1, 1}]}

Det3(R) ==
      R[1][1] * (R[2][2] * R[3][3] - R[2][3] * R[3][2])
    - R[1][2] * (R[2][1] * R[3][3] - R[2][3] * R[3][1])
    + R[1][3] * (R[2][1] * R[3][2] - R[2][2] * R[3][1])

IsOrthogonal(R) ==
    \A a, b \in 1..3 :
        R[a][1] * R[b][1] + R[a][2] * R[b][2] + R[a][3] * R[b][3]
            = (IF a = b THEN 1 ELSE 0)

\* A^T . B for two (n,3) arrays of the same length
CrossEntry(A, B, a, b) == FSum(List([i \in 1..Len(A) |-> FMul(A[i][a], B[i][b])]))
CrossRow(A, B, a) == <<CrossEntry(A, B, a, 1), CrossEntry(A, B, a, 2), CrossEntry(A, B, a, 3)>>
Cross(A, B) == <<CrossRow(A, B, 1), CrossRow(A, B, 2), CrossRow(A, B, 3)>>

TimesInt(r, x) == IF r = 0 THEN Zero ELSE IF r = 1 THEN x ELSE FNeg(x)

\* R^T . M for an integer matrix R
RtMEntry(R, M, a, b) ==
    FAdd(FAdd(TimesInt(R[1][a], M[1][b]), TimesInt(R[2][a], M[2][b])),
         TimesInt(R[3][a], M[3][b]))
RtMRow(R, M, a) == <<RtMEntry(R, M, a, 1), RtMEntry(R, M, a, 2), RtMEntry(R, M, a, 3)>>
RtM(R, M) == <<RtMRow(R, M, 1), RtMRow(R, M, 2), RtMRow(R, M, 3)>>

NonNeg(x) == Sgn(x) >= 0

IsSymPSD(S) ==
    /\ S[1][2] = S[2][1] /\ S[1][3] = S[3][1] /\ S[2][3] = S[3][2]
    /\ NonNeg(S[1][1]) /\ NonNeg(S[2][2]) /\ NonNeg(S[3][3])
    /\ \A a, b \in 1..3 :
          a < b => NonNeg(FSub(FMul(S[a][a], S[b][b]), FMul(S[a][b], S[a][b])))
    /\ NonNeg(FAdd(FSub(
          FMul(S[1][1], FSub(FMul(S[2][2], S[3][3]), FMul(S[2][3], S[3][2]))),
          FMul(S[1][2], FSub(FMul(S[2][1], S[3][3]), FMul(S[2][3], S[3][1])))),
          FMul(S[1][3], FSub(FMul(S[2][1], S[3][2]), FMul(S[2][2], S[3][1])))))

AllFinite(A) == \A i \in 1..Len(A) : VFinite(A[i])

Raise(e) == [ok |-> FALSE, error |-> e, R |-> {}]

\* the check that A and B have the same shape left out
OrthogonalProcrustesAnyShape(A, B) ==
    IF ~AllFinite(A) \/ ~AllFinite(B)
    THEN Raise("ValueError: array must not contain infs or NaNs")
    ELSE LET n == IF Len(A) < Len(B) THEN Len(A) ELSE Len(B)
             M == Cross(SubSeq(A, 1, n), SubSeq(B, 1, n))
         IN  [ok |-> TRUE, error |-> "",
              R |-> {R \in SignedPerms : IsSymPSD(RtM(R, M))}]

OrthogonalProcrustes(A, B) ==
    IF ~AllFinite(A) \/ ~AllFinite(B)
    THEN Raise("ValueError: array must not contain infs or NaNs")
    ELSE IF Len(A) # Len(B)
    THEN Raise("ValueError: the shapes of A and B differ")
    ELSE LET M == Cross(A, B)
         IN  [ok |-> TRUE, error |-> "",
              R |-> {R \in SignedPerms : IsSymPSD(RtM(R, M))}]

(***************************************************************************)
(* Autografs.align                                                         *)
(***************************************************************************)
\* numpy broadcasting of two 1-d arrays of lengths n and m
Broadcastable(n, m) == n = m \/ n = 1 \/ m = 1

\* size_sbu/size_fragment with every x/0 replaced by 0
DivideGuarded(a, b) ==
    LET n == IF Len(a) = 1 THEN Len(b) ELSE Len(a)
    IN  List([i \in 1..n |->
            LET x == a[IF Len(a) = 1 THEN 1 ELSE i]
                y == b[IF Len(b) = 1 THEN 1 ELSE i]
            IN  IF Sgn(y) = 0 THEN Zero ELSE FDiv(x, y)])

\* size_sbu/size_fragment, element by element
Divide(a, b) ==
    LET n == IF Len(a) = 1 THEN Len(b) ELSE Len(a)
    IN  List([i \in 1..n |->
            FDiv(a[IF Len(a) = 1 THEN 1 ELSE i], b[IF Len(b) = 1 THEN 1 ELSE i])])

Epsilon == Mk(1, 0, 1000000)

\* numpy.ones(3)/numpy.linalg.norm(numpy.ones(3))
OnesDirection ==
    LET n == VNorm(V(1, 1, 1)) IN <<FDiv(I(1), n), FDiv(I(1), n), FDiv(I(1), n)>>

Direction(fragment_cop) ==
    LET ncop == VNorm(fragment_cop)
    IN  IF FLt(ncop, Epsilon) THEN OnesDirection
        ELSE <<FDiv(fragment_cop[1], ncop), FDiv(fragment_cop[2], ncop),
               FDiv(fragment_cop[3], ncop)>>

XIndices(sbu) == SelectSeq([i \in 1..Len(sbu) |-> i], LAMBDA i : sbu[i].symbol = "X")

\* numpy.eye(3)*alpha
StretchRow(a, al) == <<FMul(Eye3[a][1], al[1]), FMul(Eye3[a][2], al[2]), FMul(Eye3[a][3], al[3])>>
Stretch(al) == <<StretchRow(1, al), StretchRow(2, al), StretchRow(3, al)>>

IntMatrix(R) ==
    <<V(R[1][1], R[1][2], R[1][3]), V(R[2][1], R[2][2], R[2][3]), V(R[3][1], R[3][2], R[3][3])>>

Failure(e) ==
    [ok |-> FALSE, error |-> e, sbu |-> <<>>, alpha |-> <<>>, R |-> <<>>, fragment |-> <<>>]

\* the set of results align can give: one for every R the SVD may return
Align(fragment, sbu) ==
    LET fragment_cop == MeanPos(Positions(fragment))
        fpos    == List([i \in 1..Len(fragment) |-> VSub(fragment[i].position, fragment_cop)])
        sbu_cop == MeanPos(Positions(sbu))
        spos    == List([i \in 1..Len(sbu) |-> VSub(sbu[i].position, sbu_cop)])
        sbu_Xis == XIndices(sbu)
        X0      == List([k \in 1..Len(sbu_Xis) |-> spos[sbu_Xis[k]]])
        size_sbu      == List([k \in 1..Len(X0) |-> VNorm(X0[k])])
        size_fragment == List([i \in 1..Len(fpos) |-> VNorm(fpos[i])])
    IN  IF ~Broadcastable(Len(size_sbu), Len(size_fragment))
        THEN {Failure("ValueError: operands could not be broadcast together")}
        ELSE
        LET scale     == FMul(I(2), FMean(Divide(size_sbu, size_fragment)))
            direction == Direction(fragment_cop)
            alpha_    == <<FMul(scale, direction[1]), FMul(scale, direction[2]),
                           FMul(scale, direction[3])>>
            stretch   == Stretch(alpha_)
            X1        == MatDot(fpos, stretch)
            scaled    == SetPositions(fragment, X1)
            P         == OrthogonalProcrustes(X0, X1)
        IN  IF ~P.ok THEN {Failure(P.error)}
            ELSE {[ok |-> TRUE, error |-> "",
                   sbu |-> Tag(SetPositions(sbu,
                                 MatDot(spos, IntMatrix(R))),
                               scaled),
                   alpha |-> alpha_, R |-> R, fragment |-> scaled] : R \in P.R}

(***************************************************************************)
(* The inputs: fragments of topology slots and building units.  An atom is *)
(* [symbol, position, tag]; "X" is the symbol of a connection point.       *)
(***************************************************************************)
Atom(symbol, x, y, z, tag) == [symbol |-> symbol, position |-> V(x, y, z), tag |-> tag]

\* the points of a slot shape, centred on the origin
ShapePoints(shape) ==
    CASE shape = "linear"   -> << <<1, 0, 0>>, <<-1, 0, 0>> >>
      [] shape = "square"   -> << <<1, 0, 0>>, <<0, 1, 0>>, <<-1, 0, 0>>, <<0, -1, 0>> >>
      [] shape = "triangle" -> << <<3, 4, 0>>, <<-3, 4, 0>>, <<0, -8, 0>> >>
      [] shape = "tetra"    -> << <<1, 0, 0>>, <<0, 2, 0>>, <<0, 0, 2>>, <<-1, -2, -2>> >>
      [] shape = "line3"    -> << <<1, 0, 0>>, <<0, 0, 0>>, <<-1, 0, 0>> >>
      [] shape = "point"    -> << <<0, 0, 0>> >>

Shapes == {"linear", "square", "triangle", "tetra", "line3", "point"}

\* where the centroid of a slot lies: the origin, an axis, a plane, elsewhere
Offsets == {<<0, 0, 0>>, <<0, 5, 0>>, <<-3, 0, 0>>, <<3, 0, 4>>, <<2, 4, 4>>}

\* the fragment of a slot: the shape stretched by k around the centroid c,
\* its points tagged with their slot-local connection index
Fragment(shape, k, c) ==
    LET pts == ShapePoints(shape)
    IN  List([i \in 1..Len(pts) |->
            Atom("X", k * pts[i][1] + c[1], k * pts[i][2] + c[2], k * pts[i][3] + c[3], i)])

FragmentPool == {Fragment(shape, k, c) : shape \in Shapes, k \in 1..MaxSize, c \in Offsets}

\* the building-unit library (self.sbu): name -> atoms and metadata
UnitNames ==
    {"Benzene_linear", "Ethyne_linear", "Bare_linear", "Zn_square",
     "Tri_triangle", "Mirror_tetra", "Rod_line3", "Cap_point"}

UnitAtoms(name) ==
    CASE name = "Benzene_linear" ->
            <<Atom("X", 0, 0, 2, 0), Atom("X", 0, 0, -2, 0), Atom("C", 0, 0, 0, 0)>>
      [] name = "Ethyne_linear" ->
            <<Atom("C", 1, 1, 2, 7), Atom("X", 1, 1, 4, 0), Atom("C", 1, 1, 0, 7),
              Atom("X", 1, 1, -2, 0)>>
      [] name = "Bare_linear" ->
            <<Atom("C", 0, 0, 1, 0), Atom("C", 0, 0, -1, 0)>>
      [] name = "Zn_square" ->
            <<Atom("Zn", 0, 0, 0, 0), Atom("X", 2, 0, 0, 0), Atom("X", 0, 2, 0, 0),
              Atom("X", -2, 0, 0, 0), Atom("X", 0, -2, 0, 0)>>
      [] name = "Tri_triangle" ->
            <<Atom("X", 3, 4, 0, 0), Atom("X", -3, 4, 0, 0), Atom("X", 0, -8, 0, 0)>>
      [] name = "Mirror_tetra" ->
            <<Atom("X", -1, 0, 0, 0), Atom("X", 0, 2, 0, 0), Atom("X", 0, 0, 2, 0),
              Atom("X", 1, -2, -2, 0)>>
      [] name = "Rod_line3" ->
            <<Atom("X", 0, 2, 0, 0), Atom("X", 0, 0, 0, 0), Atom("X", 0, -2, 0, 0)>>
      [] name = "Cap_point" ->
            <<Atom("X", 0, 0, 1, 0), Atom("O", 0, 0, -1, 0)>>

UnitShape(name) ==
    CASE name \in {"Benzene_linear", "Ethyne_linear", "Bare_linear"} -> "linear"
      [] name = "Zn_square"    -> "square"
      [] name = "Tri_triangle" -> "triangle"
      [] name = "Mirror_tetra" -> "tetra"
      [] name = "Rod_line3"    -> "line3"
      [] name = "Cap_point"    -> "point"

\* SBU(name=name, atoms=self.sbu[name]); "bonds" and "mmtypes" are in the
\* info of some units only
SBU(name) ==
    [name |-> name, shape |-> UnitShape(name), atoms |-> UnitAtoms(name),
     has_info |-> name \in {"Benzene_linear", "Zn_square"}]

(***************************************************************************)
(* Direct calls of align and tag on a fresh Autografs object.              *)
(***************************************************************************)
NoCall == [op |-> "none", fragment |-> <<>>, sbu |-> <<>>, out |-> Failure("")]

\* align(fragment, sbu) on any fragment and unit of the pools.  A pair whose
\* optimal R is no signed permutation matrix (Align gives the empty set) is
\* left out: such a pair has as many connection points as fragment points,
\* all finite, and every one of them got past the checks that raise.
AlignCall ==
    /\ call.op = "none"
    /\ \E fragment \in FragmentPool, name \in UnitNames :
         \E out \in Align(fragment, UnitAtoms(name)) :
            call' = [op |-> "align", fragment |-> fragment, sbu |-> UnitAtoms(name),
                     out |-> out]
    /\ UNCHANGED make_vars

\* tag returns None and changes sbu in place; out.fragment is the fragment
\* after the call
TagCall ==
    /\ call.op = "none"
    /\ \E fragment \in FragmentPool, name \in UnitNames :
         call' = [op |-> "tag", fragment |-> fragment, sbu |-> UnitAtoms(name),
                  out |-> [ok |-> TRUE, error |-> "",
                           sbu |-> Tag(UnitAtoms(name), fragment),
                           alpha |-> <<>>, R |-> <<>>, fragment |-> fragment]]
    /\ UNCHANGED make_vars

(***************************************************************************)
(* Autografs.make and get_sbu_dict.                                        *)
(***************************************************************************)
\* the slots a topology of the model is built from: shape and centroid
SlotKinds ==
    {[shape |-> "linear", c |-> <<0, 0, 0>>], [shape |-> "linear", c |-> <<2, 4, 4>>],
     [shape |-> "square", c |-> <<0, 0, 0>>]}

\* Topology(name, atoms): .shapes and .fragments, keyed by the slot indices
Topologies == UNION {[1..n -> SlotKinds] : n \in 1..MaxSlots}

Slots(t) == DOMAIN t
TopologyFragment(t, idx) == Fragment(t[idx].shape, 1, t[idx].c)

\* an entry of sbu_names: a name, or the tuple (name, n) of the docstring
Plain(name)   == [name |-> name, pair |-> FALSE, n |-> 0]
Pair(name, n) == [name |-> name, pair |-> TRUE, n |-> n]

NameEntries ==
    {Plain("Benzene_linear"), Plain("Ethyne_linear"), Plain("Bare_linear"),
     Plain("Zn_square"), Pair("Benzene_linear", 2)}

NameLists == UNION {[1..n -> NameEntries] : n \in 1..MaxNames}

\* self.sbu[name]: the keys of the library are the names, so a tuple is no key
InLibrary(entry) == ~entry.pair /\ entry.name \in UnitNames

\* random.choice over every unit of sbu_names, whatever its shape
ChoicesAnyShape(names, shape) ==
    {names[i].name : i \in {j \in 1..Len(names) : InLibrary(names[j])}}

\* by_shape[shape]: the units of sbu_names of that shape
Choices(names, shape) ==
    {names[i].name : i \in {j \in 1..Len(names) :
                               InLibrary(names[j]) /\ SBU(names[j].name).shape = shape}}

\* what a caller may pass as sbu_dict: units for any set of indices
DictUnits == {"Benzene_linear", "Zn_square"}
SbuDicts == UNION {[K -> DictUnits] : K \in SUBSET (1..MaxSlots)}

Orders(K) == {o \in [1..Cardinality(K) -> K] : \A a, b \in DOMAIN o : a # b => o[a] # o[b]}

Event(op, idx, f) == [op |-> op, idx |-> idx, f |-> f]

ZeroVector == V(0, 0, 0)

\* make(topology_name, sbu_names): lines 61-66; alpha = 0.0 is kept as the
\* zero vector it becomes with the first alpha += f
MakeNames ==
    /\ pc = "idle"
    /\ \E t \in Topologies, names \in NameLists :
         /\ topology' = t
         /\ sbu_names' = names
    /\ mode' = "names"
    /\ pc' = "matching"
    /\ alpha' = ZeroVector
    /\ UNCHANGED <<sbu_dict, order, pos, aligned, refine_calls, alpha0, error, trace, call>>

\* make(topology_name, sbu_dict=d): the dictionary is used as it is
MakeDict ==
    /\ pc = "idle"
    /\ \E t \in Topologies, d \in SbuDicts :
         /\ topology' = t
         /\ sbu_dict' = d
         /\ order' \in Orders(DOMAIN d)
    /\ mode' = "dict"
    /\ pc' = "assembling"
    /\ alpha' = ZeroVector
    /\ UNCHANGED <<sbu_names, pos, aligned, refine_calls, alpha0, error, trace, call>>

\* get_sbu_dict, whole: for every slot it builds by_shape from sbu_names
\* (self.sbu[name] raises KeyError) and draws from by_shape[shape]
\* (random.choice of an empty list raises IndexError)
GetSbuDict ==
    /\ pc = "matching"
    /\ IF \E i \in 1..Len(sbu_names) : ~InLibrary(sbu_names[i])
       THEN /\ pc' = "failed"
            /\ error' = "KeyError"
            /\ UNCHANGED <<sbu_dict, order>>
       ELSE IF \E idx \in Slots(topology) : Choices(sbu_names, topology[idx].shape) = {}
       THEN /\ pc' = "failed"
            /\ error' = "IndexError: Cannot choose from an empty sequence"
            /\ UNCHANGED <<sbu_dict, order>>
       ELSE /\ sbu_dict' \in
                  {d \in [Slots(topology) -> UnitNames] :
                      \A idx \in Slots(topology) :
                          d[idx] \in Choices(sbu_names, topology[idx].shape)}
            /\ order' = [i \in 1..Len(topology) |-> i]
            /\ pc' = "assembling"
            /\ UNCHANGED error
    /\ UNCHANGED <<mode, topology, sbu_names, pos, alpha, aligned, refine_calls, alpha0,
                   trace, call>>

\* alpha = f instead of alpha += f
AccumulateLast(total, f) == f

\* alpha += f
Accumulate(total, f) == VAdd(total, f)

\* Framework.append(index, sbu, mmtypes, bonds)
FrameworkAppend(framework, idx, sbu, mm) ==
    [k \in DOMAIN framework \cup {idx} |->
        IF k = idx THEN [sbu |-> sbu, mm |-> mm] ELSE framework[k]]

\* sbu_bonds, sbu_types: from the info of the unit, or from analyze_mm
MMSource(unit) == IF unit.has_info THEN "info" ELSE "analyze_mm"

LoopDone == pos = Len(order)

\* one pass of the loop of make, with an exception of align caught and the
\* slot skipped
AlignSlotSkipping ==
    /\ pc = "assembling"
    /\ ~LoopDone
    /\ LET idx == order[pos + 1]
       IN  IF idx \notin Slots(topology)
           THEN /\ pc' = "failed"
                /\ error' = "KeyError"
                /\ UNCHANGED <<pos, alpha, aligned, trace>>
           ELSE \E out \in Align(TopologyFragment(topology, idx), SBU(sbu_dict[idx]).atoms) :
                  IF out.ok
                  THEN /\ alpha' = Accumulate(alpha, out.alpha)
                       /\ aligned' = FrameworkAppend(aligned, idx, out.sbu, MMSource(SBU(sbu_dict[idx])))
                       /\ trace' = trace \o <<Event("align", idx, out.alpha),
                                              Event("append", idx, <<>>)>>
                       /\ pos' = pos + 1
                       /\ UNCHANGED <<pc, error>>
                  ELSE /\ trace' = trace \o <<Event("align raised", idx, <<>>)>>
                       /\ pos' = pos + 1
                       /\ UNCHANGED <<pc, error, alpha, aligned>>
    /\ UNCHANGED <<mode, topology, sbu_names, sbu_dict, order, refine_calls, alpha0, call>>

\* one pass of the loop of make (lines 72-88)
AlignSlot ==
    /\ pc = "assembling"
    /\ ~LoopDone
    /\ LET idx == order[pos + 1]
       IN  IF idx \notin Slots(topology)
           THEN /\ pc' = "failed"
                /\ error' = "KeyError"
                /\ UNCHANGED <<pos, alpha, aligned, trace>>
           ELSE \E out \in Align(TopologyFragment(topology, idx), SBU(sbu_dict[idx]).atoms) :
                  IF out.ok
                  THEN /\ alpha' = Accumulate(alpha, out.alpha)
                       /\ aligned' = FrameworkAppend(aligned, idx, out.sbu, MMSource(SBU(sbu_dict[idx])))
                       /\ trace' = trace \o <<Event("align", idx, out.alpha),
                                              Event("append", idx, <<>>)>>
                       /\ pos' = pos + 1
                       /\ UNCHANGED <<pc, error>>
                  ELSE /\ trace' = trace \o <<Event("align raised", idx, <<>>)>>
                       /\ pc' = "failed"
                       /\ error' = out.error
                       /\ UNCHANGED <<pos, alpha, aligned>>
    /\ UNCHANGED <<mode, topology, sbu_names, sbu_dict, order, refine_calls, alpha0, call>>

\* aligned.refine(alpha0=alpha); return aligned
Refine ==
    /\ pc = "assembling"
    /\ LoopDone
    /\ refine_calls' = refine_calls + 1
    /\ alpha0' = alpha
    /\ trace' = trace \o <<Event("refine", 0, alpha)>>
    /\ pc' = "returned"
    /\ UNCHANGED <<mode, topology, sbu_names, sbu_dict, order, pos, alpha, aligned, error, call>>

InitMake ==
    /\ pc = "idle"
    /\ mode = "none"
    /\ topology = <<>>
    /\ sbu_names = <<>>
    /\ sbu_dict = <<>>
    /\ order = <<>>
    /\ pos = 0
    /\ alpha = <<>>
    /\ aligned = <<>>
    /\ refine_calls = 0
    /\ alpha0 = <<>>
    /\ error = ""
    /\ trace = <<>>

Init == InitMake /\ call = NoCall

Next == MakeNames \/ MakeDict \/ GetSbuDict \/ AlignSlot \/ Refine

Spec == Init /\ [][Next]_vars

NextAlign == AlignCall \/ TagCall

SpecAlign == Init /\ [][NextAlign]_vars

(***************************************************************************)
(* The claims.  C1, C2, C5, C6 and C9 are about make and are checked under *)
(* Spec; C3, C4, C7, C8 and C10 are about align and tag and are checked    *)
(* under SpecAlign.                                                        *)
(***************************************************************************)
HasEvent(op) == \E i \in DOMAIN trace : trace[i].op = op

\* no entry of sbu_names resolves to a unit of the shape of slot idx
Unfillable(idx) ==
    \A i \in 1..Len(sbu_names) :
        InLibrary(sbu_names[i]) => UnitShape(sbu_names[i].name) # topology[idx].shape

\* C1: if some slot has no candidate unit of its shape, or align raises for
\* a slot, make ends in an error: it never returns a Framework and refine is
\* never called.
C1_WholeRequestFails ==
    /\ (mode = "names" /\ \E idx \in Slots(topology) : Unfillable(idx))
          => (pc \in {"matching", "failed"} /\ refine_calls = 0)
    /\ HasEvent("align raised") => (pc = "failed" /\ refine_calls = 0)
    /\ pc = "failed" => (error # "" /\ refine_calls = 0)

\* C1 witness: align raised for a slot after another slot had been aligned
\* and appended, and make failed.
C1_Witness ==
    /\ pc = "failed"
    /\ HasEvent("align raised")
    /\ aligned # <<>>

\* C1 witness of the other case: a slot without candidate.
C1_WitnessUnfillable ==
    /\ pc = "failed"
    /\ mode = "names"
    /\ \A i \in 1..Len(sbu_names) : InLibrary(sbu_names[i])
    /\ \E idx \in Slots(topology) : Unfillable(idx)

\* C2: a Framework that make returns holds exactly one aligned fragment for
\* every slot index of the topology, each with the atom count of its unit.
C2_AssemblyComplete ==
    pc = "returned" =>
        /\ DOMAIN aligned = Slots(topology)
        /\ \A idx \in Slots(topology) :
              Len(aligned[idx].sbu) = Len(UnitAtoms(sbu_dict[idx]))

NX(sbu) == Cardinality({i \in 1..Len(sbu) : sbu[i].symbol = "X"})

\* C3: align raises, returning neither unit nor scale vector, when the unit
\* has no connection point and when the number of connection points differs
\* from the number of fragment points.
C3_MismatchFails ==
    (call.op = "align" /\ (NX(call.sbu) = 0 \/ NX(call.sbu) # Len(call.fragment)))
        => (~call.out.ok /\ call.out.error # "" /\ call.out.sbu = <<>>
            /\ call.out.alpha = <<>>)

\* C3 witness: one connection point against several fragment points, which
\* numpy broadcasts and orthogonal_procrustes rejects.
C3_Witness ==
    /\ call.op = "align"
    /\ NX(call.sbu) = 1
    /\ Len(call.fragment) > 1
    /\ ~call.out.ok
    /\ call.out.error = "ValueError: the shapes of A and B differ"

\* C3 witness: no connection point against a single fragment point.
C3_WitnessZero ==
    /\ call.op = "align"
    /\ NX(call.sbu) = 0
    /\ Len(call.fragment) = 1
    /\ ~call.out.ok

\* the squared distance of two points with integer coordinates
IntDist2(u, v) ==
    (u[1].p - v[1].p) * (u[1].p - v[1].p) + (u[2].p - v[2].p) * (u[2].p - v[2].p)
        + (u[3].p - v[3].p) * (u[3].p - v[3].p)

\* j is the lowest index among the fragment points nearest to ps
NearestFirst(fragment, ps, j) ==
    /\ \A k \in 1..Len(fragment) :
          IntDist2(fragment[j].position, ps) <= IntDist2(fragment[k].position, ps)
    /\ \A k \in 1..(j - 1) :
          IntDist2(fragment[j].position, ps) < IntDist2(fragment[k].position, ps)

\* C4: after tag(sbu, fragment) every X atom carries the tag of the nearest
\* fragment point, the lowest index winning a tie; the other atoms, and the
\* fragment, are unchanged.
C4_TagNearest ==
    call.op = "tag" =>
        /\ Len(call.out.sbu) = Len(call.sbu)
        /\ call.out.fragment = call.fragment
        /\ \A i \in 1..Len(call.sbu) :
              IF call.sbu[i].symbol = "X"
              THEN /\ call.out.sbu[i].position = call.sbu[i].position
                   /\ call.out.sbu[i].symbol = "X"
                   /\ \E j \in 1..Len(call.fragment) :
                         /\ NearestFirst(call.fragment, call.sbu[i].position, j)
                         /\ call.out.sbu[i].tag = call.fragment[j].tag
              ELSE call.out.sbu[i] = call.sbu[i]

\* C4 witness: an X atom at the same distance from two nearest fragment
\* points took the tag of the first, beside an atom that is not X.
C4_Witness ==
    /\ call.op = "tag"
    /\ \E i \in 1..Len(call.sbu) : call.sbu[i].symbol # "X"
    /\ \E i \in 1..Len(call.sbu), j, k \in 1..Len(call.fragment) :
          /\ call.sbu[i].symbol = "X"
          /\ j < k
          /\ NearestFirst(call.fragment, call.sbu[i].position, j)
          /\ IntDist2(call.fragment[j].position, call.sbu[i].position)
                = IntDist2(call.fragment[k].position, call.sbu[i].position)
          /\ call.out.sbu[i].tag = call.fragment[j].tag
          /\ call.fragment[k].tag # call.fragment[j].tag

\* C5: the mapping get_sbu_dict returns has the slot indices as its keys, and
\* the unit of every slot is one of sbu_names with the shape of the slot.
C5_SbuDictMatchesShapes ==
    (mode = "names" /\ pc \notin {"idle", "matching"} /\ sbu_dict # <<>>) =>
        /\ DOMAIN sbu_dict = Slots(topology)
        /\ \A idx \in Slots(topology) :
              /\ \E i \in 1..Len(sbu_names) :
                    ~sbu_names[i].pair /\ sbu_names[i].name = sbu_dict[idx]
              /\ UnitShape(sbu_dict[idx]) = topology[idx].shape

\* C5 witness: the same unit chosen for two slots of one shape, while
\* sbu_names held another unit of that shape.
C5_Witness ==
    /\ mode = "names"
    /\ pc = "assembling"
    /\ Len(topology) >= 2
    /\ sbu_dict[1] = sbu_dict[2]
    /\ \E i \in 1..Len(sbu_names) :
          /\ sbu_names[i].name # sbu_dict[1]
          /\ InLibrary(sbu_names[i])
          /\ UnitShape(sbu_names[i].name) = topology[1].shape

\* C6: with sbu_names given as (name, n) pairs that offer a unit for every
\* slot, the selection completes with a valid assignment.
C6_WeightsAccepted ==
    (/\ mode = "names"
     /\ pc # "matching"
     /\ \A i \in 1..Len(sbu_names) : sbu_names[i].pair /\ sbu_names[i].name \in UnitNames
     /\ \A idx \in Slots(topology) :
           \E i \in 1..Len(sbu_names) :
               UnitShape(sbu_names[i].name) = topology[idx].shape)
    => /\ pc # "failed"
       /\ DOMAIN sbu_dict = Slots(topology)
       /\ \A idx \in Slots(topology) : UnitShape(sbu_dict[idx]) = topology[idx].shape

\* a point of the fragment lies at the centroid of the fragment
DegenerateFragment(fragment) ==
    \E i \in 1..Len(fragment) : \A k \in 1..3 :
        Len(fragment) * fragment[i].position[k].p
            = FSum([j \in 1..Len(fragment) |-> fragment[j].position[k]]).p

\* C7: for a fragment with a point at its own centroid align raises; and
\* align never returns positions or a scale vector that are NaN or infinite.
C7_DegenerateFails ==
    call.op = "align" =>
        /\ DegenerateFragment(call.fragment) => (~call.out.ok /\ call.out.error # "")
        /\ call.out.ok => /\ AllFinite(Positions(call.out.sbu))
                          /\ VFinite(call.out.alpha)

\* C7 witness: a single-point fragment with a unit of one connection point.
C7_Witness ==
    /\ call.op = "align"
    /\ Len(call.fragment) = 1
    /\ NX(call.sbu) = 1
    /\ ~call.out.ok
    /\ call.out.error = "ValueError: array must not contain infs or NaNs"

\* C7 witness: a point at the centroid of a fragment of several points.
C7_WitnessLine ==
    /\ call.op = "align"
    /\ Len(call.fragment) = 3
    /\ NX(call.sbu) = 3
    /\ DegenerateFragment(call.fragment)
    /\ ~call.out.ok

\* C8: the matrix R that align applies is orthogonal and a proper rotation
\* (determinant +1), never a reflection.
C8_ProperRotation ==
    (call.op = "align" /\ call.out.ok) =>
        (IsOrthogonal(call.out.R) /\ Det3(call.out.R) = 1)

\* C8, the failing input: for the mirrored unit A^T.B has full rank, so the
\* R of the SVD is unique, and it is a reflection.
C8_ReflectionForced ==
    (call.op = "align" /\ call.out.ok /\ NX(call.sbu) = 4 /\ call.sbu[1].position = V(-1, 0, 0))
        => Det3(call.out.R) = -1

\* the tags of the X atoms of a unit are pairwise distinct
DistinctXTags(sbu) ==
    \A i, j \in 1..Len(sbu) :
        (i # j /\ sbu[i].symbol = "X" /\ sbu[j].symbol = "X") => sbu[i].tag # sbu[j].tag

\* C10: when align returns for a unit with as many connection points as the
\* fragment has points, at distinct positions with distinct tags, the tags
\* left on the connection points are pairwise distinct.
C10_TagsBijective ==
    (/\ call.op = "align"
     /\ call.out.ok
     /\ NX(call.sbu) = Len(call.fragment)
     /\ \A i, j \in 1..Len(call.fragment) :
           i # j => /\ call.fragment[i].tag # call.fragment[j].tag
                    /\ call.fragment[i].position # call.fragment[j].position)
    => DistinctXTags(call.out.sbu)

AlignEvents(idx) == {i \in DOMAIN trace : trace[i].op = "align" /\ trace[i].idx = idx}
AppendEvents(idx) == {i \in DOMAIN trace : trace[i].op = "append" /\ trace[i].idx = idx}
ScaleOf(idx) == trace[CHOOSE i \in AlignEvents(idx) : TRUE].f

Max(S) == CHOOSE m \in S : \A k \in S : k <= m

\* the sum of the scale vectors align returned, in ascending slot order
RECURSIVE SumScales(_)
SumScales(S) ==
    IF S = {} THEN ZeroVector
    ELSE VAdd(SumScales(S \ {Max(S)}), ScaleOf(Max(S)))

\* C9: in a run of make that returns, refine is called exactly once, after
\* align and append were performed once for every entry of the slot
\* assignment and nothing after it, with alpha0 the sum of the scale vectors
\* align returned, whatever the order of the entries.
C9_RefineOnceAfterAll ==
    /\ refine_calls <= 1
    /\ (refine_calls = 1) = (pc = "returned")
    /\ (refine_calls = 1) = HasEvent("refine")
    /\ \A r \in DOMAIN trace :
          trace[r].op = "refine" =>
             /\ r = Len(trace)
             /\ r = 2 * Cardinality(DOMAIN sbu_dict) + 1
             /\ \A idx \in DOMAIN sbu_dict :
                   /\ Cardinality(AlignEvents(idx)) = 1
                   /\ Cardinality(AppendEvents(idx)) = 1
                   /\ \A a \in AlignEvents(idx) : a + 1 \in AppendEvents(idx)
             /\ trace[r].f = SumScales(DOMAIN sbu_dict)
             /\ alpha0 = trace[r].f

\* C9 witness: make returned after processing slot 2 before slot 1, the two
\* scale vectors being different.
C9_Witness ==
    /\ pc = "returned"
    /\ refine_calls = 1
    /\ order = <<2, 1>>
    /\ ScaleOf(1) # ScaleOf(2)
    /\ alpha0 = VAdd(ScaleOf(1), ScaleOf(2))

====
